---- MODULE Spec2Model ----
(***************************************************************************)
(* Model of the governance RPC handlers of src/src/rpccvn.cpp: addcvn,     *)
(* removecvn and their helpers AddAdminSignatures, AddCvnInfoToMsg,        *)
(* AddChainAdminToMsg and AddDynParamsToMsg.                               *)
(*                                                                         *)
(* Program state: the registries mapCVNs and mapChainAdmins, the current   *)
(* dynamic chain parameters dynParams, the active chain tip and the        *)
(* initial-block-download flag.  Every handler runs under cs_main, so one  *)
(* handler call is one atomic action.  The variables request, reply, msg   *)
(* and calls record the call being answered: its arguments, what it        *)
(* returned or threw, the CChainDataMsg it built, and the collaborators    *)
(* it called, in order.  Return hands the reply to the caller.             *)
(*                                                                         *)
(* Specifications: Spec (addcvn and removecvn over all their inputs),      *)
(* SpecParse (tokens with non-hex halves), SpecOverride (parameter         *)
(* overrides), SpecCeremony (hash request, signing, resubmission),         *)
(* SpecSign (signchaindata) and SpecThreads (the handlers as steps of a    *)
(* thread, interleaved with a registry writer).                            *)
(***************************************************************************)
EXTENDS Integers, Sequences, FiniteSets, TLC

VARIABLES mapCVNs, mapChainAdmins, dynParams, tipHeight, fIBD,
          request, reply, msg, calls,
          cs, pc, frame

vars == <<mapCVNs, mapChainAdmins, dynParams, tipHeight, fIBD,
          request, reply, msg, calls, cs, pc, frame>>

registry == <<mapCVNs, mapChainAdmins, dynParams>>

\* The view of a handler as steps of a thread, used where handlers are
\* interleaved with other threads: the owner of each critical section, the
\* position of each thread, and the locals of the handler's copy loop.
threads == <<cs, pc, frame>>

(***************************************************************************)
(* Bounds of the model.                                                    *)
(***************************************************************************)
MaxHeight == 1
MaxTokens == 2

Ids == {1, 2}
ValidKeys == {"k1", "k2"}
PubKeyInputs == {"k1", "bad"}
Types == {"c", "a"}

\* The critical sections the handlers enter, none of them owned; the two
\* threads before they start; the copy loop's locals before it runs.
Locks == {"cs_main", "cs_mapCVNs", "cs_mapChainAdmins"}
NoLocks == [l \in Locks |-> "none"]
Unstarted == [rpc |-> "idle", writer |-> "idle"]
NoFrame == [index |-> 0, nHeightAdded |-> 0]

(***************************************************************************)
(* CChainDataMsg payload bits and the six CDynamicChainParams fields.      *)
(***************************************************************************)
CVN_PAYLOAD == "CVN_PAYLOAD"
CHAIN_ADMINS_PAYLOAD == "CHAIN_ADMINS_PAYLOAD"
CHAIN_PARAMETERS_PAYLOAD == "CHAIN_PARAMETERS_PAYLOAD"

ParamFields == {"nBlockSpacing", "nBlockSpacingGracePeriod", "nDustThreshold",
                "nMaxCvnSigners", "nMinCvnSigners", "nMinSuccessiveSignatures"}

NullParams == [f \in ParamFields |-> 0]

\* chainActive.Tip()->GetBlockHash(): one block per height on the active chain.
BlockHash(h) == h

\* A default-constructed CChainDataMsg.
NullMsg ==
    [nPayload |-> {}, hashPrevBlock |-> 0 - 1, vCvns |-> <<>>,
     vChainAdmins |-> <<>>, dynamicChainParams |-> NullParams,
     vAdminSignatures |-> <<>>]

HasCvnInfo(m) == CVN_PAYLOAD \in m.nPayload
HasChainAdmins(m) == CHAIN_ADMINS_PAYLOAD \in m.nPayload
HasChainParameters(m) == CHAIN_PARAMETERS_PAYLOAD \in m.nPayload

\* CChainDataMsg::GetHash: every field except vAdminSignatures.
GetHash(m) ==
    [nPayload |-> m.nPayload, hashPrevBlock |-> m.hashPrevBlock,
     vCvns |-> m.vCvns, vChainAdmins |-> m.vChainAdmins,
     dynamicChainParams |-> m.dynamicChainParams]

NoHash == GetHash(NullMsg)

(***************************************************************************)
(* std::map iteration: entries in ascending key order.                     *)
(***************************************************************************)
RECURSIVE MapValues(_, _)
MapValues(map, keys) ==
    IF keys = {} THEN <<>>
    ELSE LET k == CHOOSE x \in keys : \A y \in keys : x <= y
         IN <<map[k]>> \o MapValues(map, keys \ {k})

MapToSeq(map) == MapValues(map, DOMAIN map)

(***************************************************************************)
(* Signature tokens.  A token is the string "<hexSignerId>:<hexSignature>" *)
(* as the caller typed it, described by what the parsing code sees:        *)
(*   nParts   the number of pieces boost::split on ':' yields;             *)
(*   id       the value of the leading hex digits of the first piece, or   *)
(*            -1 when it has none;                                         *)
(*   idHex    whether the whole first piece is hex;                        *)
(*   sigKey, sigOver   the bytes of the leading hex of the second piece,   *)
(*            a signature made with private key sigKey over hash sigOver   *)
(*            (sigKey "none": no bytes);                                   *)
(*   sigHex   whether the whole second piece is hex.                       *)
(***************************************************************************)
Token(n, i, ih, k, o, sh) ==
    [nParts |-> n, id |-> i, idHex |-> ih, sigKey |-> k, sigOver |-> o, sigHex |-> sh]

\* Sign(hash, key): the signature token of admin i made with key k over h.
SignedToken(i, k, h) == Token(2, i, TRUE, k, h, TRUE)

\* ParseHex: the bytes of the leading hex digits, whatever follows them.
ParseHex(t) == [key |-> t.sigKey, over |-> t.sigOver]

\* ss << hex << str; ss >> signerId: the leading hex digits; when there are
\* none the extraction fails and signerId keeps an indeterminate value u.
HexToUint(t, u) == IF t.id >= 0 THEN t.id ELSE u

CCvnSignature(signerId, vSignature) ==
    [nSignerId |-> signerId, vSignature |-> vSignature]

NullSignature == CCvnSignature(0, [key |-> "none", over |-> NoHash])

\* CvnVerifyAdminSignature: the signature is the registered admin's, over hash.
CvnVerifyAdminSignature(hash, sig) ==
    /\ sig.nSignerId \in DOMAIN mapChainAdmins
    /\ sig.vSignature.key = mapChainAdmins[sig.nSignerId].vPubKey
    /\ sig.vSignature.over = hash

SignerIds(vSigs) == {vSigs[i].nSignerId : i \in 1..Len(vSigs)}

\* CheckAdminSignatures: every signature verifies and the distinct signers
\* reach the quorum.
CheckAdminSignatures(hash, vSigs) ==
    /\ \A i \in 1..Len(vSigs) : CvnVerifyAdminSignature(hash, vSigs[i])
    /\ Cardinality(SignerIds(vSigs)) >= dynParams.nMinCvnSigners

Throw(e, m, checked) == [status |-> "throw", err |-> e, msg |-> m, checked |-> checked]

Min(S) == CHOOSE x \in S : \A y \in S : x <= y

\* ParseAndCheck returning true without CheckAdminSignatures.
ParseAndCheck_Unchecked(m, sigs, undef) ==
    [status |-> "true", err |-> "",
     msg |-> [m EXCEPT !.vAdminSignatures =
                [i \in 1..Len(sigs) |->
                   CCvnSignature(HexToUint(sigs[i], undef[i]), ParseHex(sigs[i]))]],
     checked |-> FALSE]

\* AddAdminSignatures, lines 44-63: every token parsed into the message,
\* then CheckAdminSignatures over the message's hash.  undef[i] is the
\* indeterminate signerId of token i when its extraction fails.
ParseAndCheck(m, sigs, undef) ==
    LET n == Len(sigs)
        bad == {i \in 1..n : sigs[i].nParts # 2}
        upto == IF bad = {} THEN n ELSE Min(bad) - 1
        parsed == [i \in 1..n |->
                     IF i <= upto
                     THEN CCvnSignature(HexToUint(sigs[i], undef[i]), ParseHex(sigs[i]))
                     ELSE NullSignature]
        m2 == [m EXCEPT !.vAdminSignatures = parsed]
    IN IF bad # {}
       THEN Throw("MalformedToken", m2, FALSE)
       ELSE [status |-> IF CheckAdminSignatures(GetHash(m2), m2.vAdminSignatures)
                        THEN "true" ELSE "false",
             err |-> "", msg |-> m2, checked |-> TRUE]

\* AddAdminSignatures with <= in the lower count check.
AddAdminSignatures_OffByOne(m, sigs, undef) ==
    IF Len(sigs) <= dynParams.nMinCvnSigners
    THEN Throw("TooFewSigners", m, FALSE)
    ELSE IF Len(sigs) > dynParams.nMaxCvnSigners
    THEN Throw("TooManySigners", m, FALSE)
    ELSE ParseAndCheck(m, sigs, undef)

\* AddAdminSignatures counting against the parameters the message carries.
AddAdminSignatures_MsgParams(m, sigs, undef) ==
    LET p == IF HasChainParameters(m) THEN m.dynamicChainParams ELSE dynParams
    IN IF Len(sigs) < p.nMinCvnSigners
       THEN Throw("TooFewSigners", m, FALSE)
       ELSE IF Len(sigs) > p.nMaxCvnSigners
       THEN Throw("TooManySigners", m, FALSE)
       ELSE ParseAndCheck(m, sigs, undef)

\* static bool AddAdminSignatures(CChainDataMsg &msg, const UniValue& sigs)
AddAdminSignatures(m, sigs, undef) ==
    IF Len(sigs) < dynParams.nMinCvnSigners
    THEN Throw("TooFewSigners", m, FALSE)
    ELSE IF Len(sigs) > dynParams.nMaxCvnSigners
    THEN Throw("TooManySigners", m, FALSE)
    ELSE ParseAndCheck(m, sigs, undef)

(***************************************************************************)
(* Snapshot builders.                                                      *)
(***************************************************************************)
CCvnInfo(nNodeId, nHeightAdded, vPubKey) ==
    [nNodeId |-> nNodeId, nHeightAdded |-> nHeightAdded, vPubKey |-> vPubKey]

CChainAdmin(nAdminId, vPubKey) == [nAdminId |-> nAdminId, vPubKey |-> vPubKey]

\* AddCvnInfoToMsg sending the new entry alone.
AddCvnInfoToMsg_Delta(m, nNodeId, nHeightAdded, vPubKey) ==
    [m EXCEPT !.nPayload = @ \cup {CVN_PAYLOAD},
              !.vCvns = <<CCvnInfo(nNodeId, nHeightAdded, vPubKey)>>]

AddCvnInfoToMsg(m, nNodeId, nHeightAdded, vPubKey) ==
    [m EXCEPT !.nPayload = @ \cup {CVN_PAYLOAD},
              !.vCvns = MapToSeq(mapCVNs) \o <<CCvnInfo(nNodeId, nHeightAdded, vPubKey)>>]

AddChainAdminToMsg(m, nAdminId, vPubKey) ==
    [m EXCEPT !.nPayload = @ \cup {CHAIN_ADMINS_PAYLOAD},
              !.vChainAdmins = MapToSeq(mapChainAdmins) \o <<CChainAdmin(nAdminId, vPubKey)>>]

\* The if-chain of lines 113-125 with the nMaxCvnSigners branch writing
\* nMinCvnSigners.
SetParam_WrongField(params, key, value) ==
    IF key = "nBlockSpacing" THEN [params EXCEPT !.nBlockSpacing = value]
    ELSE IF key = "nBlockSpacingGracePeriod"
    THEN [params EXCEPT !.nBlockSpacingGracePeriod = value]
    ELSE IF key = "nDustThreshold" THEN [params EXCEPT !.nDustThreshold = value]
    ELSE IF key = "nMaxCvnSigners" THEN [params EXCEPT !.nMinCvnSigners = value]
    ELSE IF key = "nMinCvnSigners" THEN [params EXCEPT !.nMinCvnSigners = value]
    ELSE IF key = "nMinSuccessiveSignatures"
    THEN [params EXCEPT !.nMinSuccessiveSignatures = value]
    ELSE params

\* The if-chain of lines 113-125 for one key of jsonParams.
SetParam(params, key, value) ==
    IF key = "nBlockSpacing" THEN [params EXCEPT !.nBlockSpacing = value]
    ELSE IF key = "nBlockSpacingGracePeriod"
    THEN [params EXCEPT !.nBlockSpacingGracePeriod = value]
    ELSE IF key = "nDustThreshold" THEN [params EXCEPT !.nDustThreshold = value]
    ELSE IF key = "nMaxCvnSigners" THEN [params EXCEPT !.nMaxCvnSigners = value]
    ELSE IF key = "nMinCvnSigners" THEN [params EXCEPT !.nMinCvnSigners = value]
    ELSE IF key = "nMinSuccessiveSignatures"
    THEN [params EXCEPT !.nMinSuccessiveSignatures = value]
    ELSE params

\* The loop of lines 111-126 over the keys not yet visited.
RECURSIVE OverrideParams(_, _, _)
OverrideParams(params, jsonParams, keys) ==
    IF keys = {}
    THEN params
    ELSE LET key == CHOOSE k \in keys : TRUE
         IN OverrideParams(SetParam(params, key, jsonParams[key]), jsonParams,
                           keys \ {key})

\* AddDynParamsToMsg: the six current parameters copied (103-108), then
\* every key of jsonParams (a function from key strings to integers, each
\* within the range of get_int and not negative) applied to the copy.
AddDynParamsToMsg(m, jsonParams) ==
    [m EXCEPT !.nPayload = @ \cup {CHAIN_PARAMETERS_PAYLOAD},
              !.dynamicChainParams =
                  OverrideParams([f \in ParamFields |-> dynParams[f]], jsonParams,
                                 DOMAIN jsonParams)]

(***************************************************************************)
(* Collaborators outside this file.                                        *)
(***************************************************************************)
IsFullyValid(vPubKey) == vPubKey \in ValidKeys

IsInitialBlockDownload == fIBD

\* The ids of a snapshot's entries, in order.
CvnIds(seq) == [i \in 1..Len(seq) |-> seq[i].nNodeId]
AdminIds(seq) == [i \in 1..Len(seq) |-> seq[i].nAdminId]

LastIndex(ids, id) ==
    CHOOSE i \in 1..Len(ids) :
        /\ ids[i] = id
        /\ \A j \in (i + 1)..Len(ids) : ids[j] # id

\* The registry a snapshot describes: one entry per id.
SeqToMap(seq, ids) ==
    [id \in {ids[i] : i \in 1..Len(ids)} |-> seq[LastIndex(ids, id)]]

ParamsValid(p) == 1 <= p.nMinCvnSigners /\ p.nMinCvnSigners <= p.nMaxCvnSigners

\* AddChainData may accept a message only if the parameters it carries are usable.
CanAccept(m) == HasChainParameters(m) => ParamsValid(m.dynamicChainParams)

\* AddChainData, accepted: the registry and parameters become the message's.
ApplyChainData(m) ==
    /\ mapCVNs' = IF HasCvnInfo(m) THEN SeqToMap(m.vCvns, CvnIds(m.vCvns)) ELSE mapCVNs
    /\ mapChainAdmins' = IF HasChainAdmins(m) THEN SeqToMap(m.vChainAdmins, AdminIds(m.vChainAdmins))
                         ELSE mapChainAdmins
    /\ dynParams' = IF HasChainParameters(m) THEN m.dynamicChainParams ELSE dynParams

(***************************************************************************)
(* What a handler call leaves behind: its reply, the message it built and  *)
(* the collaborators it called.                                            *)
(***************************************************************************)
Call(fn, ret) == [fn |-> fn, ret |-> ret]

Reply(kind, text, hash) == [kind |-> kind, text |-> text, hash |-> hash]

ThrowReply(e) == Reply("throw", e, NoHash)
StringReply(s) == Reply("string", s, NoHash)
HashReply(h) == Reply("hash", "", h)
ResultReply == Reply("result", "", NoHash)
NoReply == Reply("none", "", NoHash)

Outcome(r, m, c) == [reply |-> r, msg |-> m, calls |-> c]

JsonNull == [kind |-> "null", obj |-> <<>>]
JsonStr == [kind |-> "str", obj |-> <<>>]
JsonObj(f) == [kind |-> "obj", obj |-> f]

\* addcvnSubmit with AddChainData called ahead of the download check.
addcvnSubmit_SubmitFirst(m, c, fAccept) ==
    Outcome(IF IsInitialBlockDownload
            THEN StringReply("wait for block chain download to finish")
            ELSE ResultReply,
            m,
            c \o (IF fAccept
                  THEN <<Call("AddChainData", "true"), Call("RelayChainData", "")>>
                  ELSE <<Call("AddChainData", "false")>>))

\* addcvnSubmit without the download check.
addcvnSubmit_NoSyncCheck(m, c, fAccept) ==
    IF fAccept
    THEN Outcome(ResultReply, m,
                 c \o <<Call("AddChainData", "true"), Call("RelayChainData", "")>>)
    ELSE Outcome(ResultReply, m, c \o <<Call("AddChainData", "false")>>)

\* The end of addcvn, once the signatures are in: lines 217-225.
addcvnSubmit(m, c, fAccept) ==
    IF IsInitialBlockDownload
    THEN Outcome(StringReply("wait for block chain download to finish"), m,
                 c \o <<Call("IsInitialBlockDownload", "true")>>)
    ELSE IF fAccept
    THEN Outcome(ResultReply, m,
                 c \o <<Call("IsInitialBlockDownload", "false"),
                        Call("AddChainData", "true"), Call("RelayChainData", "")>>)
    ELSE Outcome(ResultReply, m,
                 c \o <<Call("IsInitialBlockDownload", "false"),
                        Call("AddChainData", "false")>>)

\* addcvn taking the hash it returns (line 190) ahead of AddDynParamsToMsg.
addcvnRun_HashBeforeParams(type, nNodeId, vPubKey, sigs, jp, undef, fAccept) ==
    LET fAddCvn == type # "a"
        valid == IsFullyValid(vPubKey)
        m0 == [NullMsg EXCEPT !.hashPrevBlock = BlockHash(tipHeight)]
        m1 == IF valid
              THEN IF fAddCvn
                   THEN AddCvnInfoToMsg(m0, nNodeId, tipHeight + 1, vPubKey)
                   ELSE AddChainAdminToMsg(m0, nNodeId, vPubKey)
              ELSE m0
        m2 == IF jp.kind = "obj" /\ DOMAIN jp.obj # {}
              THEN AddDynParamsToMsg(m1, jp.obj)
              ELSE m1
        a == AddAdminSignatures(m2, sigs, undef)
        c == <<Call("AddAdminSignatures", a.status)>>
    IN IF ~valid /\ jp.kind = "null"
       THEN Outcome(ThrowReply("InvalidPublicKey"), NullMsg, <<>>)
       ELSE IF Len(sigs) = 0
       THEN Outcome(HashReply(GetHash(m1)), m2, <<>>)
       ELSE IF a.status = "throw"
       THEN Outcome(ThrowReply(a.err), a.msg, c)
       ELSE IF a.status = "false"
       THEN Outcome(StringReply("error in signatures"), a.msg, c)
       ELSE addcvnSubmit(a.msg, c, fAccept)

\* UniValue addcvn(const UniValue& params, bool fHelp), lines 156-225.
addcvnRun(type, nNodeId, vPubKey, sigs, jp, undef, fAccept) ==
    LET fAddCvn == type # "a"
        valid == IsFullyValid(vPubKey)
        m0 == [NullMsg EXCEPT !.hashPrevBlock = BlockHash(tipHeight)]
        m1 == IF valid
              THEN IF fAddCvn
                   THEN AddCvnInfoToMsg(m0, nNodeId, tipHeight + 1, vPubKey)
                   ELSE AddChainAdminToMsg(m0, nNodeId, vPubKey)
              ELSE m0
        m2 == IF jp.kind = "obj" /\ DOMAIN jp.obj # {}
              THEN AddDynParamsToMsg(m1, jp.obj)
              ELSE m1
        a == AddAdminSignatures(m2, sigs, undef)
        c == <<Call("AddAdminSignatures", a.status)>>
    IN IF ~valid /\ jp.kind = "null"
       THEN Outcome(ThrowReply("InvalidPublicKey"), NullMsg, <<>>)
       ELSE IF Len(sigs) = 0
       THEN Outcome(HashReply(GetHash(m2)), m2, <<>>)
       ELSE IF a.status = "throw"
       THEN Outcome(ThrowReply(a.err), a.msg, c)
       ELSE IF a.status = "false"
       THEN Outcome(StringReply("error in signatures"), a.msg, c)
       ELSE addcvnSubmit(a.msg, c, fAccept)

\* std::vector::resize(n) with n = size() - 1 computed in size_t: for an empty
\* map the count wraps to SIZE_MAX, beyond max_size(), and resize throws.
ResizeThrows(n) == n < 0

NullCvn == CCvnInfo(0, 0, "")
NullAdmin == CChainAdmin(0, "")

\* The copy loops of removecvn: every entry whose key is not nNodeId, in order.
\* The copy loop with == in place of != in its test.
OtherCvns_Inverted(seq, id) == SelectSeq(seq, LAMBDA e : e.nNodeId = id)

OtherCvns(seq, id) == SelectSeq(seq, LAMBDA e : e.nNodeId # id)
OtherAdmins(seq, id) == SelectSeq(seq, LAMBDA e : e.nAdminId # id)

\* removecvnSubmit relaying whatever AddChainData answered.
removecvnSubmit_AlwaysRelay(m, c, fAccept) ==
    Outcome(ResultReply, m,
            c \o <<Call("AddChainData", IF fAccept THEN "true" ELSE "false"),
                   Call("RelayChainData", "")>>)

\* The end of removecvn, after AddAdminSignatures returned: lines 303-310.
removecvnSubmit(m, c, fAccept) ==
    IF fAccept
    THEN Outcome(ResultReply, m,
                 c \o <<Call("AddChainData", "true"), Call("RelayChainData", "")>>)
    ELSE Outcome(ResultReply, m, c \o <<Call("AddChainData", "false")>>)

\* UniValue removecvn(const UniValue& params, bool fHelp), lines 248-310.
removecvnRun(type, nNodeId, sigs, undef, fAccept) ==
    LET fRemoveCvn == type # "a"
        m0 == [NullMsg EXCEPT
                 !.nPayload = IF fRemoveCvn THEN {CVN_PAYLOAD} ELSE {CHAIN_ADMINS_PAYLOAD},
                 !.hashPrevBlock = BlockHash(tipHeight)]
        size == IF HasCvnInfo(m0) THEN Cardinality(DOMAIN mapCVNs)
                ELSE Cardinality(DOMAIN mapChainAdmins)
        found == IF HasCvnInfo(m0) THEN nNodeId \in DOMAIN mapCVNs
                 ELSE nNodeId \in DOMAIN mapChainAdmins
        m1 == IF HasCvnInfo(m0)
              THEN [m0 EXCEPT !.vCvns = OtherCvns(MapToSeq(mapCVNs), nNodeId)]
              ELSE [m0 EXCEPT !.vChainAdmins = OtherAdmins(MapToSeq(mapChainAdmins), nNodeId)]
        a == AddAdminSignatures(m1, sigs, undef)
        c == <<Call("IsInitialBlockDownload", "false"), Call("AddAdminSignatures", a.status)>>
        resized == IF HasCvnInfo(m0)
                   THEN [m0 EXCEPT !.vCvns = [i \in 1..(size - 1) |-> NullCvn]]
                   ELSE [m0 EXCEPT !.vChainAdmins = [i \in 1..(size - 1) |-> NullAdmin]]
    IN IF ResizeThrows(size - 1)
       THEN Outcome(ThrowReply("length_error"), m0, <<>>)
       ELSE IF ~found
       THEN Outcome(ThrowReply(IF fRemoveCvn THEN "CVN ID not found" ELSE "Admin ID not found"),
                    resized, <<>>)
       ELSE IF IsInitialBlockDownload
       THEN Outcome(StringReply("wait for block chain download to finish"), m1,
                    <<Call("IsInitialBlockDownload", "true")>>)
       ELSE IF Len(sigs) = 0
       THEN Outcome(HashReply(GetHash(m1)), m1, <<Call("IsInitialBlockDownload", "false")>>)
       ELSE IF a.status = "throw"
       THEN Outcome(ThrowReply(a.err), a.msg, c)
       ELSE removecvnSubmit(a.msg, c, fAccept)

(***************************************************************************)
(* The requests the callers make.                                          *)
(***************************************************************************)
\* params[4]: absent, a string, an empty object, or an object naming one key.
JsonObjects ==
    {<<>>, [k \in {"nMinCvnSigners"} |-> 2], [k \in {"nMaxCvnSigners"} |-> 1],
     [k \in {"bogus"} |-> 1]}

JsonParamInputs == {JsonNull, JsonStr} \cup {JsonObj(f) : f \in JsonObjects}

\* The token "1": no ':' in it, so boost::split yields one piece.
OnePieceToken == Token(1, 1, TRUE, "none", NoHash, TRUE)

\* Tokens a caller may hold for hash h: admin 1 signing with its own key,
\* admin 2 with its own, a signature for admin 1 made with another key,
\* and a string that is no token.
TokenInputs(h) ==
    {SignedToken(1, "k1", h), SignedToken(2, "k2", h), SignedToken(1, "k2", h),
     OnePieceToken}

TokenLists(h) == UNION {[1..n -> TokenInputs(h)] : n \in 0..MaxTokens}

\* The values an uninitialised signerId may hold.
IndeterminateIds == {0} \cup Ids

\* One value for each token whose signer id has no hex digits to extract.
UndefChoices(sigs) ==
    LET U == {i \in 1..Len(sigs) : sigs[i].id < 0}
    IN {[i \in 1..Len(sigs) |-> IF i \in U THEN f[i] ELSE 0] :
           f \in [U -> IndeterminateIds]}

AddChainDataResults(m) == IF CanAccept(m) THEN BOOLEAN ELSE {FALSE}

\* Whether both halves of every token are hex from end to end.
AllHex(sigs) == \A i \in 1..Len(sigs) : sigs[i].idHex /\ sigs[i].sigHex

\* The call on record: its arguments, the token list by its length and by
\* whether its tokens are hex.
Request(op, type, id, pubKey, sigs, jp) ==
    [op |-> op, type |-> type, id |-> id, pubKey |-> pubKey, nSigs |-> Len(sigs),
     hexOk |-> AllHex(sigs), jp |-> jp]

NoRequest == Request("none", "", 0, "", <<>>, JsonNull)

Idle == request.op = "none"

Called(c, fn, ret) == \E i \in 1..Len(c) : c[i] = Call(fn, ret)

\* The handler has run: its reply, message and calls are on record, and an
\* accepted AddChainData has replaced the registry.
Serve(req, o) ==
    /\ request' = req
    /\ reply' = o.reply
    /\ msg' = o.msg
    /\ calls' = o.calls
    /\ IF Called(o.calls, "AddChainData", "true")
       THEN ApplyChainData(o.msg)
       ELSE UNCHANGED registry
    /\ UNCHANGED <<tipHeight, fIBD, threads>>

\* AddChainData answers true or false; a run that never calls it ignores fAccept.
Handle(req, refused, accepted) ==
    IF Called(refused.calls, "AddChainData", "false")
    THEN \E fAccept \in AddChainDataResults(refused.msg) :
            Serve(req, IF fAccept THEN accepted ELSE refused)
    ELSE Serve(req, refused)

addcvn ==
    /\ Idle
    /\ \E type \in Types, id \in Ids, pubKey \in PubKeyInputs, jp \in JsonParamInputs :
         LET h == GetHash(addcvnRun(type, id, pubKey, <<>>, jp, <<>>, FALSE).msg)
         IN \E sigs \in TokenLists(h) :
              \E undef \in UndefChoices(sigs) :
                 Handle(Request("addcvn", type, id, pubKey, sigs, jp),
                        addcvnRun(type, id, pubKey, sigs, jp, undef, FALSE),
                        addcvnRun(type, id, pubKey, sigs, jp, undef, TRUE))

removecvn ==
    /\ Idle
    /\ \E type \in Types, id \in Ids :
         LET h == GetHash(removecvnRun(type, id, <<>>, <<>>, FALSE).msg)
         IN \E sigs \in TokenLists(h) :
              \E undef \in UndefChoices(sigs) :
                 Handle(Request("removecvn", type, id, "", sigs, JsonNull),
                        removecvnRun(type, id, sigs, undef, FALSE),
                        removecvnRun(type, id, sigs, undef, TRUE))

\* The reply goes back to the caller and the handler's locals are gone.
Return ==
    /\ ~Idle
    /\ request' = NoRequest
    /\ reply' = NoReply
    /\ msg' = NullMsg
    /\ calls' = <<>>
    /\ UNCHANGED <<mapCVNs, mapChainAdmins, dynParams, tipHeight, fIBD, threads>>

\* A block is connected: the active chain has a new tip.
ConnectBlock ==
    /\ Idle
    /\ tipHeight < MaxHeight
    /\ tipHeight' = tipHeight + 1
    /\ UNCHANGED <<mapCVNs, mapChainAdmins, dynParams, fIBD, request, reply, msg, calls, threads>>

\* The node has caught up with the network.
FinishDownload ==
    /\ Idle
    /\ fIBD
    /\ fIBD' = FALSE
    /\ UNCHANGED <<mapCVNs, mapChainAdmins, dynParams, tipHeight, request, reply, msg, calls, threads>>

InitParams ==
    [f \in ParamFields |-> IF f = "nMaxCvnSigners" THEN 2 ELSE 1]

Init ==
    /\ mapCVNs = (1 :> CCvnInfo(1, 0, "k1"))
    /\ mapChainAdmins = (1 :> CChainAdmin(1, "k1")) @@ (2 :> CChainAdmin(2, "k2"))
    /\ dynParams = InitParams
    /\ tipHeight = 0
    /\ fIBD = TRUE
    /\ request = NoRequest
    /\ reply = NoReply
    /\ msg = NullMsg
    /\ calls = <<>>
    /\ cs = NoLocks
    /\ pc = Unstarted
    /\ frame = NoFrame

Next == addcvn \/ removecvn \/ Return \/ ConnectBlock \/ FinishDownload

Spec == Init /\ [][Next]_vars

(***************************************************************************)
(* What the call on record did.                                            *)
(***************************************************************************)
Invoked(fn) == \E i \in 1..Len(calls) : calls[i].fn = fn
InvokedNext(fn) == \E i \in 1..Len(calls') : calls'[i].fn = fn

Served == ~Idle
ServeStep == Idle /\ request'.op # "none"

BadSignatures == StringReply("error in signatures")
SyncInProgress == StringReply("wait for block chain download to finish")

\* The registry the request is about.
Selected(type) == IF type = "a" THEN DOMAIN mapChainAdmins ELSE DOMAIN mapCVNs

(***************************************************************************)
(* C1.  A request with tokens reaches AddChainData only if                 *)
(* AddAdminSignatures returned true for its message; when it returned      *)
(* false the reply is "error in signatures" and neither AddChainData nor   *)
(* RelayChainData is called.  removecvn drops the return value (line 300)  *)
(* and calls AddChainData all the same.                                    *)
(***************************************************************************)
C1_SubmitOnlyIfVerified ==
    (Served /\ request.nSigs > 0) =>
        /\ Invoked("AddChainData") => Called(calls, "AddAdminSignatures", "true")
        /\ Called(calls, "AddAdminSignatures", "false") =>
              /\ reply = BadSignatures
              /\ ~Invoked("AddChainData")
              /\ ~Invoked("RelayChainData")

C3_DuplicateIdRejected ==
    [][(ServeStep /\ request'.op = "addcvn" /\ IsFullyValid(request'.pubKey)
          /\ request'.id \in Selected(request'.type))
          => reply' = ThrowReply("DuplicateId")]_vars

(***************************************************************************)
(* C4.  A remove request for an id absent from the selected registry, the  *)
(* empty registry included, fails with the not-found error before any      *)
(* collaborator is called.  On an empty registry the code fails in         *)
(* vector::resize(size() - 1) instead, before it looks the id up.          *)
(***************************************************************************)
NotFoundReplies == {ThrowReply("CVN ID not found"), ThrowReply("Admin ID not found")}

C4_AbsentIdNotFound ==
    [][(ServeStep /\ request'.op = "removecvn"
          /\ request'.id \notin Selected(request'.type))
          => (reply' \in NotFoundReplies /\ calls' = <<>>)]_vars

(***************************************************************************)
(* C5.  When AddChainData returns false the reply differs from the reply   *)
(* of a successful submission.  Both handlers return the same result       *)
(* object whatever AddChainData answered.                                  *)
(***************************************************************************)
C5_SubmitFailedReported ==
    (Served /\ Called(calls, "AddChainData", "false")) => reply # ResultReply

(***************************************************************************)
(* C6.  While the node is in initial block download no request calls       *)
(* AddChainData or RelayChainData, and a request that reaches the download *)
(* check then (an add whose signatures verified, a remove whose id was     *)
(* found) is answered "wait for block chain download to finish".           *)
(***************************************************************************)
C6_NoSubmitWhileCatchingUp ==
    (Served /\ fIBD) =>
        /\ ~Invoked("AddChainData")
        /\ ~Invoked("RelayChainData")
        /\ Called(calls, "AddAdminSignatures", "true") => reply = SyncInProgress
        /\ Invoked("IsInitialBlockDownload") => reply = SyncInProgress

C6_Witness ==
    /\ Served
    /\ fIBD
    /\ request.op = "addcvn"
    /\ Called(calls, "AddAdminSignatures", "true")
    /\ reply = SyncInProgress

(***************************************************************************)
(* C7.  A well-formed request with an empty token list is answered with    *)
(* the signing hash in every sync state, and calls neither                 *)
(* AddAdminSignatures nor AddChainData nor RelayChainData.  removecvn      *)
(* checks IsInitialBlockDownload before the token list (line 293) and      *)
(* answers "wait for block chain download to finish" instead.              *)
(***************************************************************************)
WellFormed(req) ==
    IF req.op = "addcvn"
    THEN IsFullyValid(req.pubKey) \/ req.jp.kind # "null"
    ELSE req.id \in Selected(req.type)

C7_EmptyTokensGiveHash ==
    (Served /\ request.nSigs = 0 /\ WellFormed(request)) =>
        /\ reply.kind = "hash"
        /\ reply.hash = GetHash(msg)
        /\ ~Invoked("AddAdminSignatures")
        /\ ~Invoked("AddChainData")
        /\ ~Invoked("RelayChainData")

(***************************************************************************)
(* C8.  RelayChainData is called only right after AddChainData returned    *)
(* true for the same message, and every AddChainData that returned true is *)
(* followed by exactly one RelayChainData; a message whose submission      *)
(* failed or was never attempted is not relayed.                           *)
(***************************************************************************)
C8_RelayFollowsSubmit ==
    Served =>
        /\ \A i \in 1..Len(calls) :
              calls[i].fn = "RelayChainData" =>
                 (i > 1 /\ calls[i - 1] = Call("AddChainData", "true"))
        /\ \A i \in 1..Len(calls) :
              calls[i] = Call("AddChainData", "true") =>
                 (i < Len(calls) /\ calls[i + 1].fn = "RelayChainData")
        /\ Cardinality({i \in 1..Len(calls) : calls[i].fn = "RelayChainData"}) <= 1

C8_Witness ==
    /\ Served
    /\ Called(calls, "AddChainData", "true")
    /\ calls[Len(calls)] = Call("RelayChainData", "")

(***************************************************************************)
(* C9.  AddAdminSignatures throws the too-few error whenever the token     *)
(* count is below the current nMinCvnSigners and the too-many error        *)
(* whenever it is above the current nMaxCvnSigners, with no token parsed   *)
(* and no signature checked; a count from nMinCvnSigners to nMaxCvnSigners *)
(* passes the count check.                                                 *)
(***************************************************************************)
CountChecked(e) ==
    /\ reply' = ThrowReply(e)
    /\ msg'.vAdminSignatures = <<>>
    /\ Called(calls', "AddAdminSignatures", "throw")

C9_CountBounds ==
    [][(ServeStep /\ InvokedNext("AddAdminSignatures")) =>
          /\ request'.nSigs < dynParams.nMinCvnSigners => CountChecked("TooFewSigners")
          /\ request'.nSigs > dynParams.nMaxCvnSigners => CountChecked("TooManySigners")
          /\ (request'.nSigs >= dynParams.nMinCvnSigners
                /\ request'.nSigs <= dynParams.nMaxCvnSigners)
                => /\ reply' \notin {ThrowReply("TooFewSigners"), ThrowReply("TooManySigners")}
                   /\ Len(msg'.vAdminSignatures) = request'.nSigs]_vars

C9_Witness ==
    /\ Served
    /\ reply = ThrowReply("TooFewSigners")
    /\ request.nSigs = dynParams.nMinCvnSigners - 1

(***************************************************************************)
(* C10.  AddAdminSignatures returns true only if every signature attached  *)
(* verifies against the message's hash under a currently registered chain  *)
(* admin and the distinct signer ids number at least nMinCvnSigners: a     *)
(* quorum made of one admin's signature repeated, or a valid set with one  *)
(* forged signature in it, returns false.                                  *)
(***************************************************************************)
C10_TrueOnlyIfQuorum ==
    [][(ServeStep /\ Called(calls', "AddAdminSignatures", "true")) =>
          /\ Len(msg'.vAdminSignatures) = request'.nSigs
          /\ \A i \in 1..Len(msg'.vAdminSignatures) :
                /\ msg'.vAdminSignatures[i].nSignerId \in DOMAIN mapChainAdmins
                /\ CvnVerifyAdminSignature(GetHash(msg'), msg'.vAdminSignatures[i])
          /\ Cardinality(SignerIds(msg'.vAdminSignatures)) >= dynParams.nMinCvnSigners]_vars

\* One admin's valid signature twice, where two signers are needed.
C10_Witness ==
    /\ Served
    /\ request.op = "addcvn"
    /\ Called(calls, "AddAdminSignatures", "false")
    /\ request.nSigs = 2
    /\ dynParams.nMinCvnSigners = 2
    /\ \A i \in 1..Len(msg.vAdminSignatures) :
          CvnVerifyAdminSignature(GetHash(msg), msg.vAdminSignatures[i])
    /\ Cardinality(SignerIds(msg.vAdminSignatures)) = 1

(***************************************************************************)
(* Token parsing on its own: addcvn called with token lists whose halves   *)
(* may be anything, for a fixed kind of request.                           *)
(***************************************************************************)
\* For hash h: admin 1's token; the same with junk after the signer id
\* ("1zz:.."), with no hex digit in the signer id ("zz:.."), with junk after
\* the signature ("1:..zz"), with no hex in the signature ("1:zz"); a token
\* of three pieces.
ParseTokenInputs(h) ==
    {SignedToken(1, "k1", h),
     Token(2, 1, FALSE, "k1", h, TRUE),
     Token(2, 0 - 1, FALSE, "k1", h, TRUE),
     Token(2, 1, TRUE, "k1", h, FALSE),
     Token(2, 1, TRUE, "none", NoHash, FALSE),
     Token(3, 1, TRUE, "k1", h, TRUE)}

ParseTokenLists(h) == UNION {[1..n -> ParseTokenInputs(h)] : n \in 1..MaxTokens}

\* One addcvn call with the token list sigs.
addcvnCall(type, id, pubKey, jp, sigs) ==
    \E undef \in UndefChoices(sigs) :
       Handle(Request("addcvn", type, id, pubKey, sigs, jp),
              addcvnRun(type, id, pubKey, sigs, jp, undef, FALSE),
              addcvnRun(type, id, pubKey, sigs, jp, undef, TRUE))

addcvnParse ==
    /\ Idle
    /\ \E type \in Types, id \in Ids :
         LET h == GetHash(addcvnRun(type, id, "k1", <<>>, JsonNull, <<>>, FALSE).msg)
         IN \E sigs \in ParseTokenLists(h) : addcvnCall(type, id, "k1", JsonNull, sigs)

NextParse == addcvnParse \/ Return \/ ConnectBlock \/ FinishDownload

SpecParse == Init /\ [][NextParse]_vars

(***************************************************************************)
(* C11.  A token list that passed the count check and holds a token whose  *)
(* signer id or signature is not hex from end to end fails with            *)
(* MalformedToken, and none of it reaches CheckAdminSignatures.  The code  *)
(* checks only the number of pieces (line 52): the stream extraction of    *)
(* the signer id (57-58) and ParseHex (60) take what hex there is and      *)
(* report nothing.                                                         *)
(***************************************************************************)
PassedCount ==
    /\ Invoked("AddAdminSignatures")
    /\ reply \notin {ThrowReply("TooFewSigners"), ThrowReply("TooManySigners")}

C11_NonHexIsMalformed ==
    (Served /\ PassedCount /\ ~request.hexOk) =>
        /\ reply = ThrowReply("MalformedToken")
        /\ Called(calls, "AddAdminSignatures", "throw")

(***************************************************************************)
(* C12.  The count check of a message that carries proposed parameters     *)
(* uses the nMinCvnSigners and nMaxCvnSigners of dynParams as they are     *)
(* when the call is made, never the values in msg.dynamicChainParams: the  *)
(* check ends as it does for a message without parameters and the same     *)
(* number of tokens.                                                       *)
(***************************************************************************)
CountError(r) ==
    IF r \in {ThrowReply("TooFewSigners"), ThrowReply("TooManySigners")} THEN r.text ELSE ""

\* The count check of n tokens on a message that proposes nothing.
PlainCountError(n) ==
    LET a == AddAdminSignatures(NullMsg, [i \in 1..n |-> OnePieceToken], <<>>)
    IN IF a.err \in {"TooFewSigners", "TooManySigners"} THEN a.err ELSE ""

C12_BoundsFromCurrentParams ==
    [][(ServeStep /\ InvokedNext("AddAdminSignatures") /\ HasChainParameters(msg')) =>
          /\ CountError(reply') = PlainCountError(request'.nSigs)
          /\ reply' = ThrowReply("TooFewSigners")
                <=> request'.nSigs < dynParams.nMinCvnSigners
          /\ reply' = ThrowReply("TooManySigners")
                <=> (request'.nSigs >= dynParams.nMinCvnSigners
                       /\ request'.nSigs > dynParams.nMaxCvnSigners)]_vars

\* One token passes the count check under nMinCvnSigners = 1 although the
\* message proposes nMinCvnSigners = 2.
C12_Witness ==
    /\ Served
    /\ Invoked("AddAdminSignatures")
    /\ HasChainParameters(msg)
    /\ msg.dynamicChainParams.nMinCvnSigners > request.nSigs
    /\ dynParams.nMinCvnSigners <= request.nSigs
    /\ reply = BadSignatures

(***************************************************************************)
(* C14.  addcvn with a valid key and an id that is not in the selected     *)
(* registry builds a snapshot of n + 1 entries for a registry of n: every  *)
(* entry of the registry once and as it is, and the new entry; the         *)
(* payload flag of that registry is set.                                   *)
(***************************************************************************)
Occurrences(seq, e) == Cardinality({i \in 1..Len(seq) : seq[i] = e})

AddSnapshot(seq, reg, new) ==
    /\ Len(seq) = Cardinality(DOMAIN reg) + 1
    /\ \A k \in DOMAIN reg : Occurrences(seq, reg[k]) = 1
    /\ Occurrences(seq, new) = 1

C14_AddSnapshotIsFullSet ==
    [][(/\ ServeStep
        /\ request'.op = "addcvn"
        /\ IsFullyValid(request'.pubKey)
        /\ request'.id \notin Selected(request'.type)) =>
          IF request'.type = "a"
          THEN /\ HasChainAdmins(msg')
               /\ AddSnapshot(msg'.vChainAdmins, mapChainAdmins,
                              CChainAdmin(request'.id, request'.pubKey))
          ELSE /\ HasCvnInfo(msg')
               /\ AddSnapshot(msg'.vCvns, mapCVNs,
                              CCvnInfo(request'.id, tipHeight + 1, request'.pubKey))]_vars

C14_Witness ==
    /\ Served
    /\ request.op = "addcvn"
    /\ request.type = "c"
    /\ reply.kind = "hash"
    /\ request.id \notin DOMAIN mapCVNs
    /\ Cardinality(DOMAIN mapCVNs) = 1
    /\ Len(msg.vCvns) = 2
    /\ HasCvnInfo(msg)

(***************************************************************************)
(* C15.  removecvn with an id that is in the selected registry builds a    *)
(* snapshot of n - 1 entries for a registry of n: every entry but the one  *)
(* with that id, once and as it is.                                        *)
(***************************************************************************)
RemoveSnapshot(seq, reg, id) ==
    /\ Len(seq) = Cardinality(DOMAIN reg) - 1
    /\ \A k \in DOMAIN reg \ {id} : Occurrences(seq, reg[k]) = 1
    /\ Occurrences(seq, reg[id]) = 0

C15_RemoveSnapshotIsRest ==
    [][(/\ ServeStep
        /\ request'.op = "removecvn"
        /\ request'.id \in Selected(request'.type)) =>
          IF request'.type = "a"
          THEN /\ HasChainAdmins(msg')
               /\ RemoveSnapshot(msg'.vChainAdmins, mapChainAdmins, request'.id)
          ELSE /\ HasCvnInfo(msg')
               /\ RemoveSnapshot(msg'.vCvns, mapCVNs, request'.id)]_vars

C15_Witness ==
    /\ Served
    /\ request.op = "removecvn"
    /\ request.type = "a"
    /\ reply.kind = "hash"
    /\ DOMAIN mapChainAdmins = {1, 2}
    /\ request.id = 1
    /\ msg.vChainAdmins = <<mapChainAdmins[2]>>

(***************************************************************************)
(* C18.  Every message for which addcvn returns a hash or calls            *)
(* AddChainData carries at least one payload flag, whatever the validity   *)
(* of the public key and whatever the fifth argument is.  The test of      *)
(* line 170 lets an invalid key through whenever the fifth argument is     *)
(* not null, and line 185 adds parameters only for an object with keys:    *)
(* an invalid key with a string or with {} leaves nPayload empty.          *)
(***************************************************************************)
C18_AddCarriesPayload ==
    (/\ Served
     /\ request.op = "addcvn"
     /\ reply.kind = "hash" \/ Invoked("AddChainData")) =>
        msg.nPayload # {}

(***************************************************************************)
(* Parameter overrides on their own: hash requests of addcvn whose fifth   *)
(* argument ranges over objects of up to MaxOverrideKeys keys, from two    *)
(* sets of current parameters.                                             *)
(***************************************************************************)
MaxOverrideKeys == 2

OverrideKeys == ParamFields \cup {"bogus"}
OverrideValues == {0, 9}

OverrideObjects ==
    UNION {[K -> OverrideValues] :
              K \in {S \in SUBSET OverrideKeys : Cardinality(S) <= MaxOverrideKeys}}

OtherParams ==
    [nBlockSpacing |-> 3, nBlockSpacingGracePeriod |-> 4, nDustThreshold |-> 5,
     nMaxCvnSigners |-> 7, nMinCvnSigners |-> 6, nMinSuccessiveSignatures |-> 8]

InitOverride ==
    /\ mapCVNs = (1 :> CCvnInfo(1, 0, "k1"))
    /\ mapChainAdmins = (1 :> CChainAdmin(1, "k1")) @@ (2 :> CChainAdmin(2, "k2"))
    /\ dynParams \in {InitParams, OtherParams}
    /\ tipHeight = 0
    /\ fIBD = TRUE
    /\ request = NoRequest
    /\ reply = NoReply
    /\ msg = NullMsg
    /\ calls = <<>>
    /\ cs = NoLocks
    /\ pc = Unstarted
    /\ frame = NoFrame

addcvnOverride ==
    /\ Idle
    /\ \E pubKey \in PubKeyInputs, f \in OverrideObjects :
          addcvnCall("c", 2, pubKey, JsonObj(f), <<>>)

NextOverride == addcvnOverride \/ Return \/ ConnectBlock \/ FinishDownload

SpecOverride == InitOverride /\ [][NextOverride]_vars

(***************************************************************************)
(* C16.  The parameters AddDynParamsToMsg puts into the message equal the  *)
(* current dynParams in every field whose key is not in jsonParams and     *)
(* the value of jsonParams in every field whose key is in it; keys that    *)
(* name no field change nothing; dynParams itself is left as it was.       *)
(***************************************************************************)
C16_OverridesFieldwise ==
    [][(ServeStep /\ request'.op = "addcvn" /\ HasChainParameters(msg')) =>
          /\ DOMAIN msg'.dynamicChainParams = ParamFields
          /\ \A f \in ParamFields :
                msg'.dynamicChainParams[f] =
                    IF f \in DOMAIN request'.jp.obj
                    THEN request'.jp.obj[f]
                    ELSE dynParams[f]
          /\ dynParams' = dynParams]_vars

C16_Witness ==
    /\ Served
    /\ HasChainParameters(msg)
    /\ DOMAIN request.jp.obj = {"bogus", "nMaxCvnSigners"}
    /\ dynParams = OtherParams
    /\ msg.dynamicChainParams = [OtherParams EXCEPT !.nMaxCvnSigners = 9]

(***************************************************************************)
(* The signing ceremony: a caller asks for the hash of its request, has    *)
(* the admins sign it and makes the same call again with their tokens, or  *)
(* asks for the hash again; the chain may grow in between.                 *)
(***************************************************************************)
\* One removecvn call with the token list sigs.
removecvnCall(type, id, sigs) ==
    \E undef \in UndefChoices(sigs) :
       Handle(Request("removecvn", type, id, "", sigs, JsonNull),
              removecvnRun(type, id, sigs, undef, FALSE),
              removecvnRun(type, id, sigs, undef, TRUE))

\* The caller holds the hash that the call on record returned.
HoldsHash == reply.kind = "hash"

\* A block is connected while the caller holds a hash.
ConnectBlockHeld ==
    /\ HoldsHash
    /\ tipHeight < MaxHeight
    /\ tipHeight' = tipHeight + 1
    /\ UNCHANGED <<mapCVNs, mapChainAdmins, dynParams, fIBD, request, reply, msg, calls, threads>>

\* The call on record made again, with tokens over the hash it returned.
Resubmit ==
    /\ HoldsHash
    /\ \E sigs \in TokenLists(reply.hash) :
          IF request.op = "addcvn"
          THEN addcvnCall(request.type, request.id, request.pubKey, request.jp, sigs)
          ELSE removecvnCall(request.type, request.id, sigs)

\* The fifth argument of the calls of the ceremony: none, or a proposal.
CeremonyParams == {JsonNull, JsonObj([k \in {"nMinCvnSigners"} |-> 2])}

\* A call without tokens, to learn the hash to sign.
addcvnHash ==
    /\ Idle
    /\ \E type \in Types, id \in Ids, jp \in CeremonyParams :
          addcvnCall(type, id, "k1", jp, <<>>)

removecvnHash ==
    /\ Idle
    /\ \E type \in Types, id \in Ids : removecvnCall(type, id, <<>>)

NextCeremony ==
    \/ addcvnHash
    \/ removecvnHash
    \/ Return
    \/ ConnectBlock
    \/ FinishDownload
    \/ ConnectBlockHeld
    \/ Resubmit

SpecCeremony == Init /\ [][NextCeremony]_vars

\* A step that makes the held call again.
ResubmitStep == HoldsHash /\ request'.op # "none" /\ tipHeight' = tipHeight

\* The tip is the one the held hash was built on.
SameTip == reply.hash.hashPrevBlock = BlockHash(tipHeight)

(***************************************************************************)
(* C13.  The hash of a message does not depend on its vAdminSignatures:    *)
(* the hash a call without tokens returned is the hash of the message the  *)
(* same call builds with tokens attached, against which AddAdminSignatures *)
(* verifies them, and the same call without tokens returns it again.       *)
(***************************************************************************)
C13_HashIgnoresSignatures ==
    [][(ResubmitStep /\ SameTip) =>
          /\ GetHash(msg') = reply.hash
          /\ request'.nSigs = 0 => reply' = reply
          /\ (InvokedNext("AddAdminSignatures")
                /\ ~Called(calls', "AddAdminSignatures", "throw")) =>
                (Called(calls', "AddAdminSignatures", "true")
                    <=> CheckAdminSignatures(reply.hash, msg'.vAdminSignatures))]_vars

\* A quorum's tokens over the held hash verified against the rebuilt
\* message, which carries them and proposed parameters.
C13_Witness ==
    /\ Served
    /\ request.op = "addcvn"
    /\ Called(calls, "AddAdminSignatures", "true")
    /\ HasChainParameters(msg)
    /\ msg.vAdminSignatures # <<>>
    /\ \A i \in 1..Len(msg.vAdminSignatures) :
          msg.vAdminSignatures[i].vSignature.over = GetHash(msg)

(***************************************************************************)
(* C19.  Tokens over a hash that was returned before the tip changed do    *)
(* not get the request submitted: the message rebuilt on the new tip has   *)
(* another hash, AddAdminSignatures does not return true and AddChainData  *)
(* is not called.  removecvn drops what AddAdminSignatures returned (line  *)
(* 300) and submits all the same.                                          *)
(***************************************************************************)
C19_StaleSignaturesNotSubmitted ==
    [][(ResubmitStep /\ ~SameTip /\ request'.nSigs > 0) =>
          /\ GetHash(msg') # reply.hash
          /\ ~Called(calls', "AddAdminSignatures", "true")
          /\ ~InvokedNext("AddChainData")]_vars

(***************************************************************************)
(* signchaindata.                                                          *)
(***************************************************************************)
\* CBitcoinSecret::SetString: whether the string encodes a private key.  A
\* key pair goes by one name, so the key of secret "k1" is public key "k1".
SetString(privKey) == privKey \in ValidKeys

\* The reply of line 353: the token, and the hash it was made for.
TokenReply(t, hash) == [kind |-> "token", text |-> "", hash |-> hash, token |-> t]

\* signchaindata returning the token without verifying the signature.
signchaindataRun_NoVerify(hashChainData, adminId, privKey, fSigned, u) ==
    LET nAdminId == HexToUint([id |-> adminId], u)
        vSignature == [key |-> privKey, over |-> hashChainData]
        sig == CCvnSignature(nAdminId, vSignature)
    IN IF ~SetString(privKey)
       THEN [reply |-> StringReply("private key is invalid"), nAdminId |-> nAdminId,
             calls |-> <<Call("SetString", "false")>>]
       ELSE IF ~fSigned
       THEN [reply |-> StringReply("CvnSignWithKey : could not create block signature"),
             nAdminId |-> nAdminId,
             calls |-> <<Call("SetString", "true"), Call("Sign", "false")>>]
       ELSE [reply |-> TokenReply(Token(2, adminId, adminId >= 0, privKey,
                                        hashChainData, TRUE), hashChainData),
             nAdminId |-> nAdminId,
             calls |-> <<Call("SetString", "true"), Call("Sign", "true")>>]

\* UniValue signchaindata(const UniValue& params, bool fHelp), lines 328-353.
\* adminId is the value of the leading hex digits of params[1], below 0 when
\* there are none; fSigned is what key.Sign returns.
signchaindataRun(hashChainData, adminId, privKey, fSigned, u) ==
    LET nAdminId == HexToUint([id |-> adminId], u)
        vSignature == [key |-> privKey, over |-> hashChainData]
        sig == CCvnSignature(nAdminId, vSignature)
    IN IF ~SetString(privKey)
       THEN [reply |-> StringReply("private key is invalid"), nAdminId |-> nAdminId,
             calls |-> <<Call("SetString", "false")>>]
       ELSE IF ~fSigned
       THEN [reply |-> StringReply("CvnSignWithKey : could not create block signature"),
             nAdminId |-> nAdminId,
             calls |-> <<Call("SetString", "true"), Call("Sign", "false")>>]
       ELSE IF ~CvnVerifyAdminSignature(hashChainData, sig)
       THEN [reply |-> StringReply("error signing chain data"), nAdminId |-> nAdminId,
             calls |-> <<Call("SetString", "true"), Call("Sign", "true"),
                         Call("CvnVerifyAdminSignature", "false")>>]
       ELSE [reply |-> TokenReply(Token(2, adminId, adminId >= 0, privKey,
                                        hashChainData, TRUE), hashChainData),
             nAdminId |-> nAdminId,
             calls |-> <<Call("SetString", "true"), Call("Sign", "true"),
                         Call("CvnVerifyAdminSignature", "true")>>]

\* The hashes asked to be signed: that of no message, and that of the
\* message removing CVN 1 now.
SignHashInputs == {NoHash, GetHash(removecvnRun("c", 1, <<>>, <<>>, FALSE).msg)}

\* params[1] by the value of its leading hex digits; "zz" has none.
AdminIdInputs == Ids \cup {0 - 1}

PrivKeyInputs == ValidKeys \cup {"bad"}

\* The call on record holds nAdminId as parsed and the private key.
signchaindata ==
    /\ Idle
    /\ \E hashChainData \in SignHashInputs, adminId \in AdminIdInputs,
          privKey \in PrivKeyInputs, fSigned \in BOOLEAN,
          u \in IndeterminateIds :
          LET o == signchaindataRun(hashChainData, adminId, privKey, fSigned, u)
          IN /\ request' = Request("signchaindata", "a", o.nAdminId, privKey, <<>>, JsonNull)
             /\ reply' = o.reply
             /\ calls' = o.calls
             /\ msg' = NullMsg
             /\ UNCHANGED <<mapCVNs, mapChainAdmins, dynParams, tipHeight, fIBD, threads>>

NextSign == signchaindata \/ removecvn \/ Return \/ ConnectBlock \/ FinishDownload

SpecSign == Init /\ [][NextSign]_vars

(***************************************************************************)
(* C20.  signchaindata returns a token only if the private key is valid,   *)
(* key.Sign succeeded and the signature verifies as that of the chain      *)
(* admin registered under the parsed admin id, over the given hash; every  *)
(* other call returns one of three error strings and no token; no call     *)
(* changes the registry or the parameters.                                 *)
(***************************************************************************)
SignErrors ==
    {StringReply("private key is invalid"),
     StringReply("CvnSignWithKey : could not create block signature"),
     StringReply("error signing chain data")}

C20_TokenOnlyIfVerified ==
    [][(Idle /\ request'.op = "signchaindata") =>
          /\ registry' = registry
          /\ reply'.kind = "token" \/ reply' \in SignErrors
          /\ reply'.kind = "token" <=>
                /\ SetString(request'.pubKey)
                /\ Called(calls', "Sign", "true")
                /\ request'.id \in DOMAIN mapChainAdmins
                /\ mapChainAdmins[request'.id].vPubKey = request'.pubKey
          /\ reply'.kind = "token" =>
                /\ reply'.token.nParts = 2
                /\ reply'.token.sigKey = request'.pubKey
                /\ reply'.token.sigOver = reply'.hash
                /\ CvnVerifyAdminSignature(reply'.hash,
                       CCvnSignature(request'.id, ParseHex(reply'.token)))]_vars

\* Admin 2's token, returned while admin 2 is registered.
C20_Witness ==
    /\ request.op = "signchaindata"
    /\ reply.kind = "token"
    /\ reply.token = SignedToken(2, "k2", reply.hash)
    /\ reply.hash # NoHash
    /\ 2 \in DOMAIN mapChainAdmins

(***************************************************************************)
(* The handlers as threads.  The message-building part of addcvn and of    *)
(* removecvn, one step per read of shared state, for a call without        *)
(* tokens, interleaved with a thread that writes the registries and the    *)
(* chain tip.  The writer is not in this file: it is modelled as entering  *)
(* cs_main for the whole of its update and the lock of the map it writes.  *)
(***************************************************************************)
\* LOCK(l) that enters without waiting for the owner to leave.
LOCK_NoWait(l) == TRUE

\* LOCK(l): the thread enters when no thread owns l.
LOCK(l) == cs[l] = "none"

MapLock(type) == IF type = "a" THEN "cs_mapChainAdmins" ELSE "cs_mapCVNs"

\* The map a request is about, as BOOST_FOREACH visits it.
SelectedSeq(type) == IF type = "a" THEN MapToSeq(mapChainAdmins) ELSE MapToSeq(mapCVNs)

EntryId(type, e) == IF type = "a" THEN e.nAdminId ELSE e.nNodeId

NewEntry(type, id, nHeightAdded, vPubKey) ==
    IF type = "a" THEN CChainAdmin(id, vPubKey) ELSE CCvnInfo(id, nHeightAdded, vPubKey)

PayloadOf(type) == IF type = "a" THEN CHAIN_ADMINS_PAYLOAD ELSE CVN_PAYLOAD

Snapshot(m, type) == IF type = "a" THEN m.vChainAdmins ELSE m.vCvns

WithSnapshot(m, type, seq) ==
    IF type = "a" THEN [m EXCEPT !.vChainAdmins = seq] ELSE [m EXCEPT !.vCvns = seq]

\* LOCK(cs_main), lines 156 and 248.
rpcLock ==
    /\ pc.rpc = "idle"
    /\ Idle
    /\ LOCK("cs_main")
    /\ \E op \in {"addcvn", "removecvn"}, type \in Types, id \in Ids :
          request' = Request(op, type, id, IF op = "addcvn" THEN "k1" ELSE "",
                             <<>>, JsonNull)
    /\ cs' = [cs EXCEPT !["cs_main"] = "rpc"]
    /\ pc' = [pc EXCEPT !.rpc = "locked"]
    /\ UNCHANGED <<registry, tipHeight, fIBD, reply, msg, calls, frame>>

\* msg.hashPrevBlock = chainActive.Tip()->GetBlockHash(), lines 176 and 261
\* (removecvn sets its payload flag on the line before).
rpcReadTip ==
    /\ pc.rpc = "locked"
    /\ msg' = [NullMsg EXCEPT
                 !.nPayload = IF request.op = "removecvn"
                              THEN {PayloadOf(request.type)} ELSE {},
                 !.hashPrevBlock = BlockHash(tipHeight)]
    /\ pc' = [pc EXCEPT !.rpc = "tip"]
    /\ UNCHANGED <<registry, tipHeight, fIBD, request, reply, calls, cs, frame>>

\* The head of the copy.  addcvn reads the tip height (180) and enters
\* AddCvnInfoToMsg or AddChainAdminToMsg with no further lock (68, 83);
\* removecvn enters the lock of the map (266, 279) and looks the id up
\* (269, 282).
rpcBeginCopy ==
    /\ pc.rpc = "tip"
    /\ IF request.op = "addcvn"
       THEN /\ msg' = [msg EXCEPT !.nPayload = @ \cup {PayloadOf(request.type)}]
            /\ frame' = [index |-> 0, nHeightAdded |-> tipHeight + 1]
            /\ pc' = [pc EXCEPT !.rpc = "copy"]
            /\ UNCHANGED <<cs, reply>>
       ELSE /\ LOCK(MapLock(request.type))
            /\ cs' = [cs EXCEPT ![MapLock(request.type)] = "rpc"]
            /\ frame' = NoFrame
            /\ IF request.id \in Selected(request.type)
               THEN /\ pc' = [pc EXCEPT !.rpc = "copy"]
                    /\ UNCHANGED reply
               ELSE /\ pc' = [pc EXCEPT !.rpc = "thrown"]
                    /\ reply' = ThrowReply(IF request.type = "a"
                                           THEN "Admin ID not found"
                                           ELSE "CVN ID not found")
            /\ UNCHANGED msg
    /\ UNCHANGED <<registry, tipHeight, fIBD, request, calls>>

\* One round of BOOST_FOREACH over the map: lines 72-75, 87-90, 272-276,
\* 285-289.
rpcCopy ==
    /\ pc.rpc = "copy"
    /\ frame.index < Len(SelectedSeq(request.type))
    /\ LET e == SelectedSeq(request.type)[frame.index + 1]
       IN msg' = IF request.op = "addcvn" \/ EntryId(request.type, e) # request.id
                 THEN WithSnapshot(msg, request.type,
                                   Append(Snapshot(msg, request.type), e))
                 ELSE msg
    /\ frame' = [frame EXCEPT !.index = @ + 1]
    /\ UNCHANGED <<registry, tipHeight, fIBD, request, reply, calls, cs, pc>>

\* The loop is over.  addcvn writes the new entry (77-78, 92-93) and returns
\* the hash (189-190); removecvn leaves the lock of the map (277, 290) and
\* returns the hash unless blocks are still being downloaded (293-298).
rpcEndCopy ==
    /\ pc.rpc = "copy"
    /\ frame.index >= Len(SelectedSeq(request.type))
    /\ msg' = IF request.op = "addcvn"
              THEN WithSnapshot(msg, request.type,
                       Append(Snapshot(msg, request.type),
                              NewEntry(request.type, request.id, frame.nHeightAdded,
                                       request.pubKey)))
              ELSE msg
    /\ reply' = IF request.op = "removecvn" /\ IsInitialBlockDownload
                THEN StringReply("wait for block chain download to finish")
                ELSE HashReply(GetHash(msg'))
    /\ cs' = [l \in Locks |-> IF l # "cs_main" /\ cs[l] = "rpc" THEN "none" ELSE cs[l]]
    /\ pc' = [pc EXCEPT !.rpc = "built"]
    /\ UNCHANGED <<registry, tipHeight, fIBD, request, calls, frame>>

\* The handler returns or throws: its locks are left and its locals gone.
rpcUnlock ==
    /\ pc.rpc \in {"built", "thrown"}
    /\ cs' = [l \in Locks |-> IF cs[l] = "rpc" THEN "none" ELSE cs[l]]
    /\ pc' = [pc EXCEPT !.rpc = "idle"]
    /\ request' = NoRequest
    /\ reply' = NoReply
    /\ msg' = NullMsg
    /\ frame' = NoFrame
    /\ UNCHANGED <<registry, tipHeight, fIBD, calls>>

\* The writer enters cs_main.
writerLock ==
    /\ pc.writer = "idle"
    /\ cs["cs_main"] = "none"
    /\ cs' = [cs EXCEPT !["cs_main"] = "writer"]
    /\ pc' = [pc EXCEPT !.writer = "locked"]
    /\ UNCHANGED <<registry, tipHeight, fIBD, request, reply, msg, calls, frame>>

\* The writer puts entry 2 into a map or takes it out, under the map's lock.
writerApply ==
    /\ pc.writer = "locked"
    /\ \E type \in Types :
          /\ cs[MapLock(type)] = "none"
          /\ IF type = "a"
             THEN /\ mapChainAdmins' =
                        IF 2 \in DOMAIN mapChainAdmins
                        THEN [k \in DOMAIN mapChainAdmins \ {2} |-> mapChainAdmins[k]]
                        ELSE mapChainAdmins @@ (2 :> CChainAdmin(2, "k2"))
                  /\ UNCHANGED mapCVNs
             ELSE /\ mapCVNs' =
                        IF 2 \in DOMAIN mapCVNs
                        THEN [k \in DOMAIN mapCVNs \ {2} |-> mapCVNs[k]]
                        ELSE mapCVNs @@ (2 :> CCvnInfo(2, tipHeight + 1, "k2"))
                  /\ UNCHANGED mapChainAdmins
    /\ pc' = [pc EXCEPT !.writer = "applied"]
    /\ UNCHANGED <<dynParams, tipHeight, fIBD, request, reply, msg, calls, cs, frame>>

\* The writer moves the tip.
writerTip ==
    /\ pc.writer \in {"locked", "applied"}
    /\ tipHeight < MaxHeight
    /\ tipHeight' = tipHeight + 1
    /\ pc' = [pc EXCEPT !.writer = "tipped"]
    /\ UNCHANGED <<registry, fIBD, request, reply, msg, calls, cs, frame>>

\* The writer leaves cs_main.
writerUnlock ==
    /\ pc.writer \in {"applied", "tipped"}
    /\ cs' = [l \in Locks |-> IF cs[l] = "writer" THEN "none" ELSE cs[l]]
    /\ pc' = [pc EXCEPT !.writer = "idle"]
    /\ UNCHANGED <<registry, tipHeight, fIBD, request, reply, msg, calls, frame>>

NextThreads ==
    \/ rpcLock
    \/ rpcReadTip
    \/ rpcBeginCopy
    \/ rpcCopy
    \/ rpcEndCopy
    \/ rpcUnlock
    \/ writerLock
    \/ writerApply
    \/ writerTip
    \/ writerUnlock
    \/ FinishDownload

SpecThreads == Init /\ [][NextThreads]_vars

(***************************************************************************)
(* C17.  From the read of the tip to the end of the copy the handler owns  *)
(* cs_main and the writer is outside its update, so the message a handler  *)
(* has built holds the hash of the present tip and the snapshot of the     *)
(* present map: all entries and the new one, added at the height after     *)
(* the present tip, for addcvn, all entries but the removed one for        *)
(* removecvn.                                                              *)
(***************************************************************************)
BuiltFromOneState ==
    /\ msg.hashPrevBlock = BlockHash(tipHeight)
    /\ Snapshot(msg, request.type) =
          IF request.op = "addcvn"
          THEN SelectedSeq(request.type)
                  \o <<NewEntry(request.type, request.id, tipHeight + 1, request.pubKey)>>
          ELSE IF request.type = "a"
               THEN OtherAdmins(SelectedSeq("a"), request.id)
               ELSE OtherCvns(SelectedSeq("c"), request.id)

C17_SnapshotInOneCriticalSection ==
    /\ pc.rpc \in {"tip", "copy", "built"} =>
          /\ cs["cs_main"] = "rpc"
          /\ pc.writer = "idle"
          /\ msg.hashPrevBlock = BlockHash(tipHeight)
    /\ pc.rpc = "built" => BuiltFromOneState

\* addcvn has built its message after the writer changed map and tip.
C17_Witness ==
    /\ pc.rpc = "built"
    /\ request.op = "addcvn"
    /\ request.type = "c"
    /\ tipHeight > 0
    /\ DOMAIN mapCVNs = {1, 2}
    /\ Len(msg.vCvns) = 3
    /\ reply = HashReply(GetHash(msg))

====
